---- MODULE Spec2Model ----
(***************************************************************************)
(* A model of cputest.py, a CPU benchmark script: its fixed-work loops,    *)
(* its time-boxed throughput loop, the process-pool fan-out of             *)
(* run_benchmark, and the reporting helpers (unit conversion, name         *)
(* truncation, the two comparison renderers and print_bar).                *)
(*                                                                         *)
(* The script's functions do not share state, so the module holds one      *)
(* specification per group of functions; each specification's Init parks   *)
(* the variables of the other groups and its Next leaves them unchanged.   *)
(***************************************************************************)
EXTENDS Integers, Sequences, FiniteSets

VARIABLES
    \* truncate_name(name, max_length): the arguments, the value returned by
    \* the latest call, the argument of that call, and the number of calls
    tn_name, tn_max_length, tn_arg, tn_result, tn_calls,
    \* convert_to_flops_units(value): the argument and what was returned
    cv_value, cv_out,
    \* the module constant NUM_OPERATIONS (line 9 / 128)
    NUM_OPERATIONS,
    \* integer_operations: position, loop variable, accumulator, iterations run
    io_pc, i_int, total, io_iters,
    \* floating_point_throughput, one instance per worker: position, inner
    \* loop variable, the inner sum, count, time.time() - start_time, the
    \* number of completed passes and the duration of the latest pass
    num_cores, pc, i, acc, count, elapsed, passes, last_pass,
    \* run_benchmark's pool.map and sum(results)
    pool_pc, results, total_flops,
    \* the comparison renderers and print_bar
    REFERENCE_RESULTS, platform_name, current_flops, cmp_pc, rows, rows2, bars

truncVars == <<tn_name, tn_max_length, tn_arg, tn_result, tn_calls>>
convVars  == <<cv_value, cv_out>>
intVars   == <<io_pc, i_int, total, io_iters>>
workVars  == <<num_cores, pc, i, acc, count, elapsed, passes, last_pass>>
poolVars  == <<pool_pc, results, total_flops>>
cmpVars   == <<REFERENCE_RESULTS, platform_name, current_flops, cmp_pc, rows, rows2, bars>>
vars == <<truncVars, convVars, NUM_OPERATIONS, intVars, workVars, poolVars, cmpVars>>

----------------------------------------------------------------------------
(* Bounds of the model *)

\* longest name handed to truncate_name in SpecTruncate
MaxNameLen == 4
\* largest max_length handed to truncate_name in SpecTruncate
MaxMaxLength == 5
\* how often truncate_name is applied to its own result
MaxTruncCalls == 2
\* largest 10^12 digit group of a value handed to convert_to_flops_units
MaxTera == 2
\* largest NUM_OPERATIONS of the fixed-work integer loop
MaxNumOps == 15
\* largest NUM_OPERATIONS of the time-boxed loop
MaxPassOps == 3
\* longest duration of one inner-loop pass, in seconds
MaxPassTime == 3
\* largest logical core count
MaxCores == 2
\* reference table size, largest reference value, largest timing
MaxRefs == 2
MaxVal == 3
MaxTime == 2

Min(a, b) == IF a <= b THEN a ELSE b
Max(a, b) == IF a >= b THEN a ELSE b

\* the parked values of the groups a specification does not use
IdleTrunc == /\ tn_name = <<>> /\ tn_max_length = 0 /\ tn_arg = <<>>
             /\ tn_result = <<>> /\ tn_calls = 0
IdleConv  == cv_value = <<>> /\ cv_out = <<>>
IdleInt   == io_pc = "idle" /\ i_int = 0 /\ total = 0 /\ io_iters = 0
IdleWork  == /\ num_cores = 0 /\ pc = <<>> /\ i = <<>> /\ acc = <<>> /\ count = <<>>
             /\ elapsed = <<>> /\ passes = <<>> /\ last_pass = <<>>
IdlePool  == pool_pc = "idle" /\ results = <<>> /\ total_flops = 0
IdleCmp   == /\ REFERENCE_RESULTS = <<>> /\ platform_name = <<>> /\ current_flops = 0
             /\ cmp_pc = "idle" /\ rows = <<>> /\ rows2 = <<>> /\ bars = <<>>

----------------------------------------------------------------------------
(* truncate_name, lines 60-62.  A string is a sequence of one-character    *)
(* strings.                                                                *)

DefaultMaxLength == 55

Ellipsis == <<".", ".", ".">>

\* Python's name[:k]: the first k characters, all of name when k exceeds its
\* length, and for a negative k all but the last -k characters
Slice(name, k) ==
    IF k >= 0 THEN SubSeq(name, 1, Min(k, Len(name)))
    ELSE SubSeq(name, 1, Max(0, Len(name) + k))

\* a slip in the slice bound: two characters reserved for the ellipsis
truncate_name_short(name, max_length) ==
    IF Len(name) <= max_length THEN name
    ELSE Slice(name, max_length - 2) \o Ellipsis

truncate_name(name, max_length) ==
    IF Len(name) <= max_length THEN name
    ELSE Slice(name, max_length - 3) \o Ellipsis

Alphabet == {"a", "b"}
Names == UNION {[1..n -> Alphabet] : n \in 0..MaxNameLen}

\* names of 55, 56 and 60 characters, for the default max_length
LongNames ==
    {[k \in 1..n |-> IF k % 2 = 0 THEN "a" ELSE "b"] :
        n \in {DefaultMaxLength, DefaultMaxLength + 1, DefaultMaxLength + 5}}

InitTruncate ==
    /\ tn_name \in Names \cup LongNames
    /\ tn_max_length \in (0..MaxMaxLength) \cup {DefaultMaxLength}
    /\ tn_arg = <<>>
    /\ tn_result = <<>>
    /\ tn_calls = 0
    /\ IdleConv /\ NUM_OPERATIONS = 0 /\ IdleInt /\ IdleWork /\ IdlePool /\ IdleCmp

\* one call of truncate_name: the first on the name, each later one on the
\* result of the call before it
CallTruncate ==
    /\ tn_calls < MaxTruncCalls
    /\ LET arg == IF tn_calls = 0 THEN tn_name ELSE tn_result
       IN /\ tn_arg' = arg
          /\ tn_result' = truncate_name(arg, tn_max_length)
    /\ tn_calls' = tn_calls + 1
    /\ UNCHANGED <<tn_name, tn_max_length>>
    /\ UNCHANGED <<convVars, NUM_OPERATIONS, intVars, workVars, poolVars, cmpVars>>

NextTruncate == CallTruncate

SpecTruncate == InitTruncate /\ [][NextTruncate]_vars

\* C5: for max_length >= 3, truncate_name returns the name unchanged when it
\* fits, otherwise its first max_length - 3 characters followed by "...", a
\* string of exactly max_length characters; a second call on the result
\* returns the result unchanged.
C5_TruncateContract ==
    (tn_calls >= 1 /\ tn_max_length >= 3) =>
        /\ Len(tn_arg) <= tn_max_length => tn_result = tn_arg
        /\ Len(tn_arg) > tn_max_length =>
              /\ Len(tn_result) = tn_max_length
              /\ \A k \in 1..(tn_max_length - 3) : tn_result[k] = tn_arg[k]
              /\ \A k \in (tn_max_length - 2)..tn_max_length : tn_result[k] = "."
        /\ tn_calls >= 2 => tn_result = tn_arg

\* a name of 60 characters was truncated to the default 55, and truncated
\* again
C5_Witness ==
    /\ tn_calls = 2
    /\ tn_max_length = DefaultMaxLength
    /\ Len(tn_name) = DefaultMaxLength + 5
    /\ Len(tn_result) = DefaultMaxLength
    /\ tn_result # tn_name

\* C10: for every max_length >= 0 the returned string has at most max_length
\* characters.
C10_FitsAnyMaxLength ==
    tn_calls >= 1 => Len(tn_result) <= tn_max_length

----------------------------------------------------------------------------
(* convert_to_flops_units, lines 51-58 and 186-193 (the same text twice).  *)
(* A value is a non-negative integer below 10^15, held as five base-1000   *)
(* digit groups, least significant first: <<units, 10^3, 10^6, 10^9,       *)
(* 10^12>>.  Below 2^53 the conversion of the integer to a float is exact. *)

E9  == <<0, 0, 0, 1, 0>>
E12 == <<0, 0, 0, 0, 1>>
Groups == Len(E12)

\* value >= threshold on digit groups: the most significant group that
\* differs decides
RECURSIVE GeqFrom(_, _, _)
GeqFrom(value, threshold, g) ==
    IF g = 0 THEN TRUE
    ELSE IF value[g] # threshold[g] THEN value[g] > threshold[g]
    ELSE GeqFrom(value, threshold, g - 1)

\* a slip in the comparison: strictly greater
RECURSIVE GtFrom(_, _, _)
GtFrom(value, threshold, g) ==
    IF g = 0 THEN FALSE
    ELSE IF value[g] # threshold[g] THEN value[g] > threshold[g]
    ELSE GtFrom(value, threshold, g - 1)

AtLeastStrict(value, threshold) == GtFrom(value, threshold, Groups)

\* the tests value >= 1e12 and value >= 1e9
AtLeast(value, threshold) == GeqFrom(value, threshold, Groups)

\* The last digit kept by a ".2f" format: digit is the first decimal dropped
\* and restZero says that nothing but zeros follows it.  The quotient is
\* rounded to the nearest hundredth; when it lies exactly half way, the
\* double nearest to the quotient decides, so either neighbour can be printed
\* (1005000000000 prints 1.00, 1125000000000 prints 1.12).
RoundUps(digit, restZero) ==
    IF digit < 5 THEN {0}
    ELSE IF digit > 5 \/ ~restZero THEN {1}
    ELSE {0, 1}

\* what convert_to_flops_units(value) can return: the unit, the number of
\* decimals printed, and the printed number times 10^decimals
convert_to_flops_units(value) ==
    IF AtLeast(value, E12) THEN
        {[unit |-> "TFLOPS", decimals |-> 2,
          scaled |-> value[5] * 100 + (value[4] \div 10) + up] :
            up \in RoundUps(value[4] % 10,
                            value[3] = 0 /\ value[2] = 0 /\ value[1] = 0)}
    ELSE IF AtLeast(value, E9) THEN
        {[unit |-> "GFLOPS", decimals |-> 2,
          scaled |-> value[4] * 100 + (value[3] \div 10) + up] :
            up \in RoundUps(value[3] % 10, value[2] = 0 /\ value[1] = 0)}
    ELSE
        {[unit |-> "FLOPS", decimals |-> 0,
          scaled |-> value[3] * 1000000 + value[2] * 1000 + value[1]]}

\* the digit groups a value is built from
GroupValues == {0, 1, 2, 5, 500, 995, 999}
Values == {<<a0, a1, a2, a3, a4>> :
              a0 \in {0, 1, 500}, a1 \in {0, 999}, a2 \in GroupValues,
              a3 \in GroupValues, a4 \in 0..MaxTera}

InitConvert ==
    /\ cv_value \in Values
    /\ cv_out = <<>>
    /\ IdleTrunc /\ NUM_OPERATIONS = 0 /\ IdleInt /\ IdleWork /\ IdlePool /\ IdleCmp

CallConvert ==
    /\ cv_out = <<>>
    /\ \E out \in convert_to_flops_units(cv_value) : cv_out' = <<out>>
    /\ UNCHANGED cv_value
    /\ UNCHANGED <<truncVars, NUM_OPERATIONS, intVars, workVars, poolVars, cmpVars>>

NextConvert == CallConvert

SpecConvert == InitConvert /\ [][NextConvert]_vars

Example(value, unit, decimals, scaled) ==
    cv_value = value =>
        cv_out[1] = [unit |-> unit, decimals |-> decimals, scaled |-> scaled]

\* C6: every non-negative value gets a result and the argument is left
\* alone; the unit is TFLOPS with two decimals iff value >= 10^12, GFLOPS
\* with two decimals iff 10^9 <= value < 10^12, FLOPS with no decimals iff
\* value < 10^9; the printed number is the quotient to the hundredth; and
\* 1_500_000_000_000 -> "1.50 TFLOPS", 2_000_000_000 -> "2.00 GFLOPS",
\* 500 -> "500 FLOPS".
C6_ConvertUnits ==
    /\ cv_out = <<>> => ENABLED CallConvert
    /\ cv_out # <<>> =>
        LET out == cv_out[1]
            tera == cv_value[5]
            giga == cv_value[4]
        IN /\ out.unit = "TFLOPS" <=> tera >= 1
           /\ out.unit = "GFLOPS" <=> (tera = 0 /\ giga >= 1)
           /\ out.unit = "FLOPS" <=> (tera = 0 /\ giga = 0)
           /\ out.decimals = IF out.unit = "FLOPS" THEN 0 ELSE 2
           /\ out.unit = "TFLOPS" =>
                 out.scaled - (tera * 100 + giga \div 10) \in {0, 1}
           /\ out.unit = "GFLOPS" =>
                 out.scaled - (giga * 100 + cv_value[3] \div 10) \in {0, 1}
           /\ out.unit = "FLOPS" =>
                 out.scaled = cv_value[3] * 1000000 + cv_value[2] * 1000 + cv_value[1]
           /\ Example(<<0, 0, 0, 500, 1>>, "TFLOPS", 2, 150)
           /\ Example(<<0, 0, 0, 2, 0>>, "GFLOPS", 2, 200)
           /\ Example(<<500, 0, 0, 0, 0>>, "FLOPS", 0, 500)

\* exactly 10^12 was converted, and came out as 1.00 TFLOPS
C6_Witness ==
    /\ cv_value = E12
    /\ cv_out = <<[unit |-> "TFLOPS", decimals |-> 2, scaled |-> 100]>>

----------------------------------------------------------------------------
(* integer_operations, lines 143-148 *)

InitInteger ==
    /\ NUM_OPERATIONS \in 1..MaxNumOps
    /\ io_pc = "loop"
    /\ i_int = 1              \* range(1, NUM_OPERATIONS) starts at 1
    /\ total = 0
    /\ io_iters = 0
    /\ IdleTrunc /\ IdleConv /\ IdleWork /\ IdlePool /\ IdleCmp

\* a slip in the loop bound: range(1, NUM_OPERATIONS + 1)
InRangeInclusive(k) == k <= NUM_OPERATIONS

\* range(1, NUM_OPERATIONS) still has the element k
InRange(k) == k < NUM_OPERATIONS

\* one iteration: total += i * (i % 7)
IntegerStep ==
    /\ io_pc = "loop"
    /\ InRange(i_int)
    /\ total' = total + i_int * (i_int % 7)
    /\ i_int' = i_int + 1
    /\ io_iters' = io_iters + 1
    /\ UNCHANGED io_pc
    /\ UNCHANGED <<truncVars, convVars, NUM_OPERATIONS, workVars, poolVars, cmpVars>>

\* range exhausted: return total
IntegerReturn ==
    /\ io_pc = "loop"
    /\ ~InRange(i_int)
    /\ io_pc' = "returned"
    /\ UNCHANGED <<i_int, total, io_iters>>
    /\ UNCHANGED <<truncVars, convVars, NUM_OPERATIONS, workVars, poolVars, cmpVars>>

NextInteger == IntegerStep \/ IntegerReturn

SpecInteger == InitInteger /\ [][NextInteger]_vars

\* sum of k * (k % 7) over k in 1..n, by direct arithmetic
RECURSIVE DirectSum(_)
DirectSum(n) == IF n <= 0 THEN 0 ELSE DirectSum(n - 1) + n * (n % 7)

\* C7: integer_operations runs exactly NUM_OPERATIONS - 1 iterations, with i
\* from 1 (inclusive) to NUM_OPERATIONS (exclusive), and returns the sum of
\* i * (i % 7) over those i, which NUM_OPERATIONS alone determines; for
\* NUM_OPERATIONS = 10 that is the sum over 1..9.
C7_IntegerSum ==
    /\ io_pc = "loop" => i_int \in 1..NUM_OPERATIONS
    /\ io_pc = "returned" =>
          /\ io_iters = NUM_OPERATIONS - 1
          /\ total = DirectSum(NUM_OPERATIONS - 1)
          /\ NUM_OPERATIONS = 10 => total = 1*1 + 2*2 + 3*3 + 4*4 + 5*5 + 6*6 + 7*0 + 8*1 + 9*2

\* the loop over NUM_OPERATIONS = 10 has returned
C7_Witness ==
    io_pc = "returned" /\ NUM_OPERATIONS = 10 /\ io_iters = 9

----------------------------------------------------------------------------
(* floating_point_throughput, lines 39-45 (inline sum) and 164-170 (the    *)
(* sum is floating_point_operations, lines 150-155).  Each of the terms    *)
(* (i * 0.5) / (i % 7 + 1) is a multiple of 1/840, so the sums are held    *)
(* exactly in units of 1/840; the double the code computes is this value   *)
(* up to rounding, and equal to it wherever the value is a double, as      *)
(* 0.25 is.  Time is in whole seconds.                                     *)

Scale == 8 * 3 * 5 * 7

TimeBudget == 10

\* (k * 0.5) / (k % 7 + 1), in units of 1/Scale
Term(k) == (k * (Scale \div 2)) \div ((k % 7) + 1)

\* a slip in the loop test: the loop goes on while no more than 10 s passed
TimeLeftInclusive(e) == e <= TimeBudget

\* the loop test time.time() - start_time < 10
TimeLeft(e) == e < TimeBudget

Workers == 1..num_cores

PassTimes == 1..MaxPassTime

\* count = 0; start_time = time.time()
Start(w) ==
    /\ pc[w] = "queued"
    /\ pc' = [pc EXCEPT ![w] = "check"]
    /\ count' = [count EXCEPT ![w] = 0]
    /\ elapsed' = [elapsed EXCEPT ![w] = 0]
    /\ UNCHANGED <<num_cores, i, acc, passes, last_pass>>
    /\ UNCHANGED <<truncVars, convVars, NUM_OPERATIONS, intVars, poolVars, cmpVars>>

\* the while test: another pass, or return count
Check(w) ==
    /\ pc[w] = "check"
    /\ IF TimeLeft(elapsed[w])
       THEN /\ pc' = [pc EXCEPT ![w] = "sum"]
            /\ i' = [i EXCEPT ![w] = 1]
            /\ acc' = [acc EXCEPT ![w] = 0]
       ELSE /\ pc' = [pc EXCEPT ![w] = "returned"]
            /\ UNCHANGED <<i, acc>>
    /\ UNCHANGED <<num_cores, count, elapsed, passes, last_pass>>
    /\ UNCHANGED <<truncVars, convVars, NUM_OPERATIONS, intVars, poolVars, cmpVars>>

\* one iteration of the sum over range(1, NUM_OPERATIONS)
Iterate(w) ==
    /\ pc[w] = "sum"
    /\ i[w] < NUM_OPERATIONS
    /\ acc' = [acc EXCEPT ![w] = acc[w] + Term(i[w])]
    /\ i' = [i EXCEPT ![w] = i[w] + 1]
    /\ UNCHANGED <<num_cores, pc, count, elapsed, passes, last_pass>>
    /\ UNCHANGED <<truncVars, convVars, NUM_OPERATIONS, intVars, poolVars, cmpVars>>

\* the range is exhausted: count += the sum, d seconds after the pass began
EndPass(w, d) ==
    /\ pc[w] = "sum"
    /\ ~(i[w] < NUM_OPERATIONS)
    /\ count' = [count EXCEPT ![w] = count[w] + acc[w]]
    /\ elapsed' = [elapsed EXCEPT ![w] = elapsed[w] + d]
    /\ passes' = [passes EXCEPT ![w] = passes[w] + 1]
    /\ last_pass' = [last_pass EXCEPT ![w] = d]
    /\ pc' = [pc EXCEPT ![w] = "check"]
    /\ UNCHANGED <<num_cores, i, acc>>
    /\ UNCHANGED <<truncVars, convVars, NUM_OPERATIONS, intVars, poolVars, cmpVars>>

\* floating_point_single_core(), line 47-49: one call in the calling process,
\* taken up after count = 0 and start_time = time.time()
InitThroughput ==
    /\ NUM_OPERATIONS \in 1..MaxPassOps
    /\ num_cores = 1
    /\ pc = <<"check">>
    /\ i = <<0>> /\ acc = <<0>> /\ count = <<0>>
    /\ elapsed = <<0>> /\ passes = <<0>> /\ last_pass = <<0>>
    /\ IdleTrunc /\ IdleConv /\ IdleInt /\ IdlePool /\ IdleCmp

NextThroughput ==
    \/ Check(1)
    \/ Iterate(1)
    \/ \E d \in PassTimes : EndPass(1, d)

\* the process is never suspended for good: a step that can be taken is taken
SpecThroughput ==
    InitThroughput /\ [][NextThroughput]_vars /\ WF_vars(NextThroughput)

\* C2: the value returned after k completed passes is k * (NUM_OPERATIONS - 1),
\* the number of loop iterations executed (here in units of 1/Scale).
C2_CountsOperations ==
    pc[1] = "returned" => count[1] = Scale * passes[1] * (NUM_OPERATIONS - 1)

\* C8: the clock is looked at only between passes: a pass begins only while
\* less than 10 s have elapsed, count grows only by a pass that ran all of
\* its NUM_OPERATIONS - 1 iterations, the function returns only with
\* 10 <= elapsed < 10 + the duration of its last pass, and it does return.
C8_CooperativeCutoff ==
    /\ [](pc[1] = "sum" => elapsed[1] < TimeBudget)
    /\ [](pc[1] = "returned" =>
            /\ elapsed[1] >= TimeBudget
            /\ elapsed[1] < TimeBudget + last_pass[1])
    /\ [][/\ count'[1] # count[1] => (pc[1] = "sum" /\ i[1] = NUM_OPERATIONS)
          /\ passes'[1] # passes[1] => (pc[1] = "sum" /\ i[1] = NUM_OPERATIONS)
          /\ pc'[1] = "returned" => pc[1] \in {"check", "returned"}]_vars
    /\ <>(pc[1] = "returned")

\* the call returned after a last pass that began before and ended after the
\* 10 s mark
C8_Witness ==
    /\ pc[1] = "returned"
    /\ elapsed[1] > TimeBudget
    /\ NUM_OPERATIONS > 1
    /\ passes[1] > 1

----------------------------------------------------------------------------
(* run_benchmark's multi-core measurement, lines 109-113 and 239-242:      *)
(* Pool(processes=num_cores), pool.map(floating_point_throughput,          *)
(* [None] * num_cores), sum(results).  pool.map hands out num_cores calls  *)
(* of one item each; worker w stands for the process running the w-th      *)
(* call, with its own count, start_time and loop variables.                *)

\* passes of the pooled workers last half the budget or all of it
PoolPassTimes == {TimeBudget \div 2, TimeBudget}

RECURSIVE sum(_)
sum(seq) == IF seq = <<>> THEN 0 ELSE seq[1] + sum(Tail(seq))

\* a slip in the barrier: the map returns as soon as one call has returned
AnyReturned == \E w \in Workers : pc[w] = "returned"

\* pool.map blocks until every call has returned
AllReturned == \A w \in Workers : pc[w] = "returned"

InitPool ==
    /\ NUM_OPERATIONS \in 1..MaxPassOps
    /\ num_cores \in 1..MaxCores
    /\ pc = [w \in Workers |-> "queued"]
    /\ i = [w \in Workers |-> 0]
    /\ acc = [w \in Workers |-> 0]
    /\ count = [w \in Workers |-> 0]
    /\ elapsed = [w \in Workers |-> 0]
    /\ passes = [w \in Workers |-> 0]
    /\ last_pass = [w \in Workers |-> 0]
    /\ pool_pc = "map"
    /\ results = <<>>
    /\ total_flops = 0
    /\ IdleTrunc /\ IdleConv /\ IdleInt /\ IdleCmp

\* results = pool.map(...): the values returned, in the order of the calls
PoolMapReturns ==
    /\ pool_pc = "map"
    /\ AllReturned
    /\ results' = [w \in Workers |-> count[w]]
    /\ pool_pc' = "collected"
    /\ UNCHANGED total_flops
    /\ UNCHANGED <<truncVars, convVars, NUM_OPERATIONS, intVars, workVars, cmpVars>>

\* total_flops = sum(results)
SumResults ==
    /\ pool_pc = "collected"
    /\ total_flops' = sum(results)
    /\ pool_pc' = "summed"
    /\ UNCHANGED results
    /\ UNCHANGED <<truncVars, convVars, NUM_OPERATIONS, intVars, workVars, cmpVars>>

NextPool ==
    \/ \E w \in Workers : Start(w)
    \/ \E w \in Workers : Check(w)
    \/ \E w \in Workers : Iterate(w)
    \/ \E w \in Workers, d \in PoolPassTimes : EndPass(w, d)
    \/ PoolMapReturns
    \/ SumResults

SpecPool == InitPool /\ [][NextPool]_vars

\* the sum of count[w] over the workers in ws
RECURSIVE CountOver(_)
CountOver(ws) ==
    IF ws = {} THEN 0
    ELSE LET w == CHOOSE x \in ws : TRUE IN count[w] + CountOver(ws \ {w})

\* the variables of worker w's call
Local(w) == <<pc[w], i[w], acc[w], count[w], elapsed[w], passes[w], last_pass[w]>>

\* C3: exactly num_cores workers run floating_point_throughput, each on its
\* own accumulator (a step of one worker changes nothing of another);
\* results and total_flops are set only once every worker has returned, and
\* total_flops is the sum of the num_cores values returned, in whatever
\* order the workers started, ran and finished.
C3_JoinThenSum ==
    /\ [](/\ DOMAIN pc = 1..num_cores
          /\ pool_pc \in {"collected", "summed"} =>
                /\ \A w \in 1..num_cores : pc[w] = "returned"
                /\ Len(results) = num_cores
                /\ \A w \in Workers : results[w] = count[w]
          /\ pool_pc = "summed" => total_flops = CountOver(1..num_cores)
          /\ pool_pc = "map" => total_flops = 0 /\ results = <<>>)
    /\ [][\A w, u \in Workers :
            (w # u /\ Local(w)' # Local(w)) => Local(u)' = Local(u)]_vars

\* two workers that finished after different numbers of passes were summed
C3_Witness ==
    /\ pool_pc = "summed"
    /\ num_cores >= 2
    /\ passes[1] # passes[2]
    /\ NUM_OPERATIONS > 1
    /\ total_flops = count[1] + count[2]
    /\ total_flops > 0

----------------------------------------------------------------------------
(* The comparison renderers, print_flops_comparison of lines 64-94 (the    *)
(* current system merged into the table) and of lines 195-215 (the current *)
(* system on a row of its own), and print_bar, lines 178-184.              *)
(* A table is a dict in insertion order: a sequence of entries with        *)
(* distinct labels.  Values and timings are small non-negative integers;   *)
(* the reference values are positive, as the recorded ones are.            *)

bar_length == 20
bar_length_2 == 40
print_bar_length == 40

\* int((value / max_value) * bar_length).  For the bar lengths 20 and 40 and
\* the values of this model the float product truncates to the same integer
\* as the exact quotient.
NormalizedLength(value, max_value, length) == (value * length) \div max_value

\* {**table, key: value}: an existing key keeps its place and takes the new
\* value, a new key goes last
DictSet(table, key, value) ==
    IF \E k \in 1..Len(table) : table[k].label = key
    THEN [k \in 1..Len(table) |->
             IF table[k].label = key THEN [label |-> key, flops |-> value]
             ELSE table[k]]
    ELSE Append(table, [label |-> key, flops |-> value])

\* the place of e in a list sorted by flops, descending: behind every entry
\* that is not smaller, so entries of equal value keep their order
RECURSIVE InsertDescending(_, _)
InsertDescending(s, e) ==
    IF s = <<>> THEN <<e>>
    ELSE IF s[1].flops >= e.flops THEN <<s[1]>> \o InsertDescending(Tail(s), e)
    ELSE <<e>> \o s

RECURSIVE InsertAscending(_, _)
InsertAscending(s, e) ==
    IF s = <<>> THEN <<e>>
    ELSE IF s[1].flops <= e.flops THEN <<s[1]>> \o InsertAscending(Tail(s), e)
    ELSE <<e>> \o s

\* a slip in the sort: reverse=True left out
RECURSIVE sorted_ascending(_)
sorted_ascending(items) ==
    IF items = <<>> THEN <<>>
    ELSE InsertAscending(sorted_ascending(SubSeq(items, 1, Len(items) - 1)),
                         items[Len(items)])

\* sorted(items, key=lambda x: x[1], reverse=True), a stable sort
RECURSIVE sorted(_)
sorted(items) ==
    IF items = <<>> THEN <<>>
    ELSE InsertDescending(sorted(SubSeq(items, 1, Len(items) - 1)),
                          items[Len(items)])

\* a model integer as digit groups
ToGroups(v) == <<v % 1000, (v \div 1000) % 1000, v \div 1000000, 0, 0>>

\* convert_to_flops_units of a model integer; below 10^9 the result is unique
Human(v) == CHOOSE out \in convert_to_flops_units(ToGroups(v)) : TRUE

\* the rows printed by lines 81-94 for the table all_results
MergedRows(system_name, all_results) ==
    LET sorted_results == sorted(all_results)
        max_reference == sorted_results[1].flops
    IN [k \in 1..Len(sorted_results) |->
          LET system == truncate_name(sorted_results[k].label, DefaultMaxLength)
              ref_flops == sorted_results[k].flops
          IN [system |-> system,
              ref_flops |-> ref_flops,
              fill |-> NormalizedLength(ref_flops, max_reference, bar_length),
              bar_char |-> IF system = system_name THEN "full" ELSE "shade",
              human |-> Human(ref_flops),
              you |-> system = system_name]]

\* the rows printed by lines 204-215: the reference rows, then "Your System"
SeparateRows(name, table, flops) ==
    LET sorted_results == sorted(table)
        max_reference == sorted_results[1].flops
    IN [k \in 1..Len(sorted_results) |->
          [system |-> sorted_results[k].label,
           ref_flops |-> sorted_results[k].flops,
           fill |-> NormalizedLength(sorted_results[k].flops, max_reference, bar_length_2),
           human |-> Human(sorted_results[k].flops),
           yours |-> FALSE]]
       \o <<[system |-> name,
             ref_flops |-> flops,
             fill |-> NormalizedLength(flops, max_reference, bar_length_2),
             human |-> Human(flops),
             yours |-> TRUE]>>

\* print_bar(label, value, max_value, description)
print_bar(label, value, max_value) ==
    [label |-> label, value |-> value,
     fill |-> NormalizedLength(value, max_value, print_bar_length)]

\* labels: two short ones and two of 56 characters with the same first 52
Pad == [k \in 1..(DefaultMaxLength - 3) |-> "a"]
Labels == {<<"x">>, Pad \o <<"b", "c", "d", "e">>, Pad \o <<"b", "c", "d", "f">>}
Entries == [label : Labels, flops : 1..MaxVal]
Tables ==
    {t \in UNION {[1..n -> Entries] : n \in 1..MaxRefs} :
        \A j, k \in 1..Len(t) : j # k => t[j].label # t[k].label}

InitCompare ==
    /\ REFERENCE_RESULTS \in Tables
    /\ platform_name \in Labels
    /\ current_flops \in 0..(MaxVal + 1)
    /\ cmp_pc = "measured"
    /\ rows = <<>> /\ rows2 = <<>> /\ bars = <<>>
    /\ IdleTrunc /\ IdleConv /\ NUM_OPERATIONS = 0 /\ IdleInt /\ IdleWork /\ IdlePool

\* print_flops_comparison(current_flops), lines 64-94.  When every value of
\* the merged table is 0 the first division raises ZeroDivisionError and no
\* row is printed.
print_flops_comparison ==
    /\ cmp_pc = "measured"
    /\ LET system_name == truncate_name(platform_name, DefaultMaxLength)
           all_results == DictSet(REFERENCE_RESULTS, system_name, current_flops)
       IN IF sorted(all_results)[1].flops = 0
          THEN cmp_pc' = "ZeroDivisionError" /\ rows' = <<>>
          ELSE cmp_pc' = "compared" /\ rows' = MergedRows(system_name, all_results)
    /\ UNCHANGED <<REFERENCE_RESULTS, platform_name, current_flops, rows2, bars>>
    /\ UNCHANGED <<truncVars, convVars, NUM_OPERATIONS, intVars, workVars, poolVars>>

\* the report of the second run_benchmark, lines 250-262: the three timing
\* bars against the largest timing, then print_flops_comparison of lines
\* 195-215.  The timings of the three tests are positive.
run_benchmark_report ==
    /\ cmp_pc = "measured"
    /\ \E int_time, float_time, multi_time \in 1..MaxTime :
          LET max_time == Max(int_time, Max(float_time, multi_time))
          IN bars' = <<print_bar("Integer Operations", int_time, max_time),
                       print_bar("Floating-Point Operations", float_time, max_time),
                       print_bar("Multi-Threaded Task", multi_time, max_time)>>
    /\ rows2' = SeparateRows(platform_name, REFERENCE_RESULTS, current_flops)
    /\ cmp_pc' = "reported"
    /\ UNCHANGED <<REFERENCE_RESULTS, platform_name, current_flops, rows>>
    /\ UNCHANGED <<truncVars, convVars, NUM_OPERATIONS, intVars, workVars, poolVars>>

NextCompare == print_flops_comparison \/ run_benchmark_report

SpecCompare == InitCompare /\ [][NextCompare]_vars

\* C1: the rows of print_flops_comparison (lines 64-94) are in non-increasing
\* order of value and exactly one row carries "<-- YOU", the row whose
\* truncated label is the current system's truncated label.
C1_SortedOneYou ==
    cmp_pc = "compared" =>
        /\ \A k \in 1..(Len(rows) - 1) : rows[k].ref_flops >= rows[k + 1].ref_flops
        /\ \A k \in 1..Len(rows) :
              rows[k].you <=>
                  rows[k].system = truncate_name(platform_name, DefaultMaxLength)
        /\ Cardinality({k \in 1..Len(rows) : rows[k].you}) = 1

\* the largest value among the printed rows
MaxValue(rs) ==
    CHOOSE m \in {rs[k].ref_flops : k \in 1..Len(rs)} :
        \A k \in 1..Len(rs) : rs[k].ref_flops <= m

\* C4: in the rows of print_flops_comparison over the merged table, the bar
\* of an entry with the maximum value has exactly bar_length fill characters,
\* the bar of an entry of value 0 has none, and every bar has
\* value / max_value * bar_length fill characters, truncated to an integer.
C4_BarWidths ==
    cmp_pc = "compared" =>
        LET max_value == MaxValue(rows)
        IN \A k \in 1..Len(rows) :
              /\ rows[k].ref_flops = max_value => rows[k].fill = bar_length
              /\ rows[k].ref_flops = 0 => rows[k].fill = 0
              /\ rows[k].fill * max_value <= rows[k].ref_flops * bar_length
              /\ rows[k].ref_flops * bar_length < (rows[k].fill + 1) * max_value

\* a full bar, an empty bar and a bar whose width was truncated, in one table
C4_Witness ==
    /\ cmp_pc = "compared"
    /\ \E k \in 1..Len(rows) : rows[k].fill = bar_length
    /\ \E k \in 1..Len(rows) : rows[k].ref_flops = 0 /\ rows[k].fill = 0
    /\ \E k \in 1..Len(rows) :
          (rows[k].ref_flops * bar_length) % MaxValue(rows) # 0

\* C9: every bar printed has between 0 and its bar length fill characters:
\* the rows of either renderer, the current system's own row included, and
\* the bars of print_bar.
C9_BarsFit ==
    /\ \A k \in 1..Len(rows) : rows[k].fill \in 0..bar_length
    /\ \A k \in 1..Len(rows2) : rows2[k].fill \in 0..bar_length_2
    /\ \A k \in 1..Len(bars) : bars[k].fill \in 0..print_bar_length

====
